---- MODULE Spec2Model ----
(***************************************************************************)
(* concord: reconciliation of an organization manifest against the live    *)
(* remote state (cmd/apply.go, cmd/check_repos.go, cmd/check_members.go)   *)
(* through the client Gateway (client/orgs.go, client/repos.go).           *)
(*                                                                         *)
(* Strings whose content the code inspects (descriptions, default branch,  *)
(* logins, topics, check names) are sequences of byte codes:               *)
(*   <<97>> = "a"   <<65>> = "A"   <<98>> = "b"   <<66>> = "B"  <<99>> = "c" *)
(* Identity keys (repository and branch names) are TLA+ strings.           *)
(* An optional manifest field (a Go pointer) is <<>> when unset (nil) and  *)
(* <<v>> when set to v.                                                    *)
(***************************************************************************)
EXTENDS Integers, Sequences, FiniteSets, TLC

\* ------------------------------------------------------------------ bounds

\* Command invocations in a row on the same manifest file and remote.
MaxRuns == 2
\* Longest manifest label list and remote topic list.
MaxLabels == 2
\* Longest manifest people list and remote member list.
MaxPeople == 2
\* Largest repository count of a listed account.
MaxRepos == 250

\* -------------------------------------------------------- program constants

\* ListOptions.PerPage of GetRepos.
PerPage == 100
\* http.StatusNotFound
StatusNotFound == 404

\* ----------------------------------------------------------------- strings

Unset == <<>>
Some(v) == <<v>>
IsSet(o) == o # <<>>
Val(o) == o[1]

\* unicode.ToLower on an ASCII byte.
ToLower(c) == IF c >= 65 /\ c <= 90 THEN c + 32 ELSE c

\* strings.EqualFold, on ASCII strings.
EqualFold(s, t) ==
    /\ Len(s) = Len(t)
    /\ \A i \in 1..Len(s) : ToLower(s[i]) = ToLower(t[i])

\* The order of Go strings (byte-wise lexicographic), s < t.
StrLess(s, t) ==
    \E k \in 0..Len(s) :
        /\ k <= Len(t)
        /\ \A i \in 1..k : s[i] = t[i]
        /\ \/ (k = Len(s) /\ k < Len(t))
           \/ (k < Len(s) /\ k < Len(t) /\ s[k + 1] < t[k + 1])

\* A missing sort: the slice is left in the order it came in.
SortStrings_None(l) == l

RECURSIVE InsertSorted(_, _)
InsertSorted(x, sorted) ==
    IF sorted = <<>> THEN <<x>>
    ELSE IF StrLess(x, Head(sorted)) THEN <<x>> \o sorted
    ELSE <<Head(sorted)>> \o InsertSorted(x, Tail(sorted))

\* slices.Sort on a []string: the result is ascending in StrLess.
RECURSIVE SortStrings(_)
SortStrings(l) ==
    IF l = <<>> THEN <<>> ELSE InsertSorted(Head(l), SortStrings(Tail(l)))

\* slices.Equal
SlicesEqual(a, b) == a = b

Range(s) == {s[i] : i \in 1..Len(s)}

\* All sequences over S of length at most n without repeated elements.
SeqsNoDup(S, n) ==
    {s \in UNION {[1..k -> S] : k \in 0..n} :
        \A i, j \in 1..Len(s) : i # j => s[i] # s[j]}

\* --------------------------------------------------------------- data model

RepoNames == {"r1", "r2"}
BranchNames == {"main", "dev"}

\* gh_pb.Protection: three optional flags and the required-check names.
Protection(pr, cmp, checks, signed) ==
    [requirePr |-> pr, checksMustPass |-> cmp, requiredChecks |-> checks,
     signedCommits |-> signed]

\* gh_pb.Branch
Branch(n, p) == [name |-> n, protection |-> p]

\* gh_pb.Repository
Repository(n, d, a, p, db, l, pbs) ==
    [name |-> n, description |-> d, archived |-> a, private |-> p,
     defaultBranch |-> db, labels |-> l, protectedBranches |-> pbs]

\* gh_pb.People
People(n, u) == [name |-> n, username |-> u]

\* gh_pb.Organization
Organization(people, repos) == [name |-> "org", people |-> people, repositories |-> repos]

\* A repository as the provider holds it. protection maps a branch to <<>> (none)
\* or <<[pr, checks, signed]>>; checks is <<>> (no status-check requirement) or
\* <<list of contexts>>.
RemoteRepo(d, a, p, db, t, prot) ==
    [description |-> d, archived |-> a, private |-> p, defaultBranch |-> db,
     topics |-> t, protection |-> prot]

RemoteProtection(pr, checks, signed) == [pr |-> pr, checks |-> checks, signed |-> signed]

NoProtection == [b \in BranchNames |-> <<>>]

\* The provider's state: the organization's member logins and its repositories
\* (<<>> absent, <<r>> present).
\* invited: the user ids an invitation was created for, in order.
Remote(members, repos) == [members |-> members, repos |-> repos, invited |-> <<>>]

NoRepos == [n \in RepoNames |-> <<>>]

\* The account GetRepos lists: kind "org", "user" or "none"; count is the number of
\* repositories (public plus private); repository i of 1..count is archived iff
\* archMod > 0 and archMod divides i.
Account(k, c, m) == [kind |-> k, count |-> c, archMod |-> m]

NoAccount == Account("none", 0, 0)

\* --------------------------------------------------- inputs (bounded families)

OptBool == {Unset, Some(TRUE), Some(FALSE)}

RemoteR1 == RemoteRepo(<<97>>, FALSE, FALSE, <<109>>, <<>>, NoProtection)
RemoteR2 == RemoteRepo(<<98>>, TRUE, TRUE, <<100>>, <<>>, NoProtection)

\* Repository fields: every combination of unset / equal under case folding /
\* different, against two remote repositories and an absent one.
FieldRepos ==
    {Repository("r1", d, a, p, db, <<>>, <<>>) :
        d \in {Unset, Some(<<65>>), Some(<<98>>)}, a \in OptBool, p \in OptBool,
        db \in {Unset, Some(<<77>>), Some(<<100>>)}}

FieldsFamily ==
    {<<Organization(<<>>, <<r>>), Remote(<<>>, [NoRepos EXCEPT !["r1"] = rr])>> :
        r \in FieldRepos, rr \in {<<>>, <<RemoteR1>>, <<RemoteR2>>}}

TopicNames == {<<97>>, <<98>>, <<66>>}
TopicLists == SeqsNoDup(TopicNames, MaxLabels)

TopicsFamily ==
    {<<Organization(<<>>, <<Repository("r1", Unset, Unset, Unset, Unset, l, <<>>)>>),
       Remote(<<>>, [NoRepos EXCEPT !["r1"] = rr])>> :
        l \in TopicLists,
        rr \in {<<>>} \cup {<<[RemoteR1 EXCEPT !.topics = t]>> : t \in TopicLists}}

CheckLists == {<<>>, <<<<99>>>>, <<<<100>>, <<99>>>>}
Protections ==
    {Protection(pr, cmp, cs, sc) :
        pr \in OptBool, cmp \in OptBool, cs \in CheckLists, sc \in OptBool}
RemoteProtections ==
    {<<>>, <<RemoteProtection(TRUE, <<>>, FALSE)>>,
     <<RemoteProtection(FALSE, <<<<<<99>>>>>>, TRUE)>>}

BranchFamily ==
    {<<Organization(<<>>, <<Repository("r1", Unset, Unset, Unset, Unset, <<>>,
                                        <<Branch("main", p)>>)>>),
       Remote(<<>>, [NoRepos EXCEPT !["r1"] =
                        <<[RemoteR1 EXCEPT !.protection["main"] = rp]>>])>> :
        p \in Protections, rp \in RemoteProtections}

\* Two protected branches of one repository.
TwoBranchFamily ==
    {<<Organization(<<>>, <<Repository("r1", Unset, Unset, Unset, Unset, <<>>,
            <<Branch("main", Protection(Some(TRUE), Unset, <<>>, s1)),
              Branch("dev", Protection(Unset, Some(TRUE), <<<<99>>>>, s2))>>)>>),
       Remote(<<>>, [NoRepos EXCEPT !["r1"] =
            <<[RemoteR1 EXCEPT !.protection =
                  [b \in BranchNames |-> IF b = "main" THEN rp1 ELSE rp2]]>>])>> :
        s1 \in {Unset, Some(TRUE)}, s2 \in {Unset, Some(FALSE)},
        rp1 \in {<<>>, <<RemoteProtection(TRUE, <<>>, FALSE)>>},
        rp2 \in {<<>>, <<RemoteProtection(FALSE, <<>>, TRUE)>>}}

\* Two repositories.
TwoRepoFamily ==
    {<<Organization(<<>>, <<Repository("r1", d1, Unset, Unset, Unset, <<>>, <<>>),
                            Repository("r2", Unset, a2, Unset, Unset, <<>>, <<>>)>>),
       Remote(<<>>, [n \in RepoNames |-> IF n = "r1" THEN rr1 ELSE rr2])>> :
        d1 \in {Unset, Some(<<98>>)}, a2 \in {Unset, Some(TRUE)},
        rr1 \in {<<>>, <<RemoteR1>>}, rr2 \in {<<>>, <<RemoteR1>>}}

RepoFamilies ==
    FieldsFamily \cup TopicsFamily \cup BranchFamily \cup TwoBranchFamily
        \cup TwoRepoFamily

\* Manifest people: a display name and a username; remote members: logins.
Persons == {People(<<88>>, <<97>>), People(<<98>>, <<98>>), People(<<67>>, <<67>>)}
Logins == {<<65>>, <<98>>, <<100>>}

MembersFamily ==
    {<<Organization(ps, <<>>), Remote(ms, NoRepos)>> :
        ps \in SeqsNoDup(Persons, MaxPeople), ms \in SeqsNoDup(Logins, MaxPeople)}

\* Accounts to list: none, one repository, a full page, a page and one, the bound.
RepoCounts == {0, 1, PerPage, PerPage + 1, 2 * PerPage, MaxRepos}
Accounts ==
    {NoAccount} \cup
    {Account(k, c, m) : k \in {"org", "user"}, c \in RepoCounts, m \in {0, 1, 3}}

\* ------------------------------------------------------------------- state

VARIABLES
    cmd,        \* the command of this run: "checkMembers", "checkRepos", "apply",
                \* "applyTeams", "listRepos"
    run,        \* the number of this run, 1..MaxRuns
    file,       \* the manifest file, read at the start of every run
    org,        \* the manifest in memory
    remote,     \* the provider's organization state
    account,    \* the provider's account that GetRepos lists
    pc,         \* the position of the run
    ri,         \* reposRun: index of the repository being ensured
    bi,         \* ensureProtectedBranches: index of the branch
    ghr,        \* ensureRepo: the repository GetRepo returned, <<>> when nil
    reports,    \* the lines the report package printed in this run
    calls,      \* limiter acquisitions and provider calls of this run, in order
    outcome,    \* "running", "ok", "error", "panic"
    err,        \* the error the run ended with
    queue,      \* the client's work list of deferred invitations
    fault,      \* <<>>, or <<[answer, at]>>: the first fault the provider answered
                \* with, and the index in calls of the call it answered
    orgFound,   \* GetRepos: the account is an organization
    page,       \* GetRepos: ListOptions.Page of the next list call
    repos,      \* GetRepos: the accumulated result
    start,      \* the provider's organization state when this run began
    history     \* the finished runs before this one, oldest first

vars == <<cmd, run, file, org, remote, account, pc, ri, bi, ghr, reports, calls,
          outcome, err, queue, fault, orgFound, page, repos, start, history>>

\* The dry flag each command passes to membersRun / reposRun.
dry == cmd \in {"checkMembers", "checkRepos"}

\* ------------------------------------------------------------ the provider

\* What go-github hands back from one call: err is "none", "ratelimit"
\* (*github.RateLimitError), "errresp" (*github.ErrorResponse) or "other" (a
\* transport error); status is the response's status code, 0 when the response is nil.
Answer(e, st) == [err |-> e, status |-> st]
Ok200 == Answer("none", 200)
NotFound404 == Answer("errresp", StatusNotFound)
Faults ==
    {Answer("ratelimit", 403), Answer("ratelimit", 0), Answer("errresp", 500),
     Answer("other", 0)}

\* The answers the provider can give to a lookup of something that exists or not.
LookupAnswers(exists) == {IF exists THEN Ok200 ELSE NotFound404} \cup Faults
\* The answers the provider can give to any other call.
CallAnswers == {Ok200} \cup Faults

IsFault(o) == o \in Faults

\* The first fault of a session is kept, with the index of the call it answered.
NoteFault(f, o, n) ==
    IF f # <<>> THEN f
    ELSE IF IsFault(o) THEN <<[answer |-> o, at |-> n]>>
    ELSE <<>>

\* Users the provider knows; a login is matched case-insensitively.
KnownUsers == {p.username : p \in Persons} \cup Logins
UserExists(u) == \E k \in KnownUsers : EqualFold(k, u)

\* -------------------------------------------------------------- the Gateway

\* One entry of the call log: a limiter acquisition or a provider call.
Call(op, arg) == [op |-> op, arg |-> arg]
Wait == Call("rate.Wait", <<>>)

\* What a Gateway method returns: tag "ok", "err" (with the error) or "panic"
\* (a nil dereference inside the method).
Ok == [tag |-> "ok", err |-> ""]
Err(e) == [tag |-> "err", err |-> e]
Panic == [tag |-> "panic", err |-> "nil pointer dereference"]

ErrRepoNotFound == "repo not found"
ErrNoReposFound == "no repos found"
ErrBranchProtectionNotFound == "branch protection not found"
ErrOrgNotFound == "organization not found"
ErrUserNotFound == "user not found"
ErrHitRateLimit == "github: hit rate limit"
ErrRateLimitError == "github.RateLimitError"
\* The error of a failed teamsRun, whose text the sources do not give.
ErrTeamsRun == "teams"

IsRateLimitErr(e) == e \in {ErrHitRateLimit, ErrRateLimitError}

\* Client.GetRepo: the limiter, then Repositories.Get.
GetRepoCalls(name) == <<Wait, Call("Repositories.Get", name)>>
GetRepo(o) ==
    IF o.err = "none" THEN Ok
    ELSE IF o.err = "ratelimit" THEN Err(ErrHitRateLimit)
    ELSE IF o.status = 0 THEN Panic
    ELSE IF o.status = StatusNotFound THEN Err(ErrRepoNotFound)
    ELSE Err("get repo")

\* Client.GetBranchProtection: the limiter, then Repositories.GetBranchProtection.
GetBranchProtectionCalls(repo, branch) ==
    <<Wait, Call("Repositories.GetBranchProtection", <<repo, branch>>)>>
GetBranchProtection(o) ==
    IF o.err = "none" THEN Ok
    ELSE IF o.err = "ratelimit" THEN Err(ErrHitRateLimit)
    ELSE IF o.status = 0 THEN Panic
    ELSE IF o.status = StatusNotFound THEN Err(ErrBranchProtectionNotFound)
    ELSE Err("get branch")

\* Client.GetMembers: Organizations.ListMembers, with no limiter acquisition.
GetMembersCalls(orgName) == <<Call("Organizations.ListMembers", orgName)>>
GetMembers(o) ==
    IF o.err = "none" THEN Ok
    ELSE IF o.err = "ratelimit" THEN Err(ErrRateLimitError)
    ELSE Err("list members")

\* Client.GetOrg: Organizations.Get, with no limiter acquisition.
GetOrgCalls(orgName) == <<Call("Organizations.Get", orgName)>>
GetOrg(o) ==
    IF o.err = "none" THEN Ok
    ELSE IF o.err = "ratelimit" THEN Err(ErrRateLimitError)
    ELSE IF o.err = "errresp" /\ o.status = StatusNotFound THEN Err(ErrOrgNotFound)
    ELSE Err("get org")

\* The write methods of the client (client/repos.go), which src/ does not hold:
\* the limiter, then the provider call; a provider error is returned to the caller.
WriteCalls(op, arg) == <<Wait, Call(op, arg)>>
WriteResult(o, what) ==
    IF o.err = "none" THEN Ok
    ELSE IF o.err = "ratelimit" THEN Err(ErrHitRateLimit)
    ELSE Err(what)

WriteOps == {"CreateRepo", "UpdateRepo", "SetRepoTopics", "ProtectBranch",
             "RequireSignedCommits", "CreateOrgInvitation"}

\* The provider's repository after create-repository with the request `state`.
CreatedRepo(state) ==
    RemoteRepo(IF IsSet(state.description) THEN Val(state.description) ELSE <<>>,
               IF IsSet(state.archived) THEN Val(state.archived) ELSE FALSE,
               IF IsSet(state.private) THEN Val(state.private) ELSE FALSE,
               IF IsSet(state.defaultBranch) THEN Val(state.defaultBranch) ELSE <<>>,
               state.topics, NoProtection)

\* The provider's repository after update-repository (a partial patch: a field the
\* request leaves unset is untouched).
PatchedRepo(r, edits) ==
    [r EXCEPT
        !.description = IF IsSet(edits.description) THEN Val(edits.description) ELSE @,
        !.archived = IF IsSet(edits.archived) THEN Val(edits.archived) ELSE @,
        !.private = IF IsSet(edits.private) THEN Val(edits.private) ELSE @,
        !.defaultBranch = IF IsSet(edits.defaultBranch) THEN Val(edits.defaultBranch) ELSE @]

\* The provider's branch protection after update-branch-protection with `req`: the
\* request replaces the review and status-check requirements; signed-commit
\* enforcement lives at its own endpoint and is kept.
ProtectedAs(old, req) ==
    RemoteProtection(req.requiredPullRequestReviews, req.requiredStatusChecks,
                     IF old = <<>> THEN FALSE ELSE old[1].signed)

\* The provider's branch protection after require-signed-commits: the call carries
\* no value and turns enforcement on.
SignedAs(old) == [old EXCEPT !.signed = TRUE]

\* ------------------------------------------------------------- the report

\* One printed line: cat is the marker ("header", "info", "add", "warn",
\* "success"); tense is "plan" (updating, setting, create, invite), "done"
\* (updated, set, created, invited) or "none"; what is the wording without its
\* tense and arg the value printed.
Line(cat, tense, what, arg) == [cat |-> cat, tense |-> tense, what |-> what, arg |-> arg]
Header(t) == Line("header", "none", t, <<>>)

Tense(d) == IF d THEN "plan" ELSE "done"

\* ----------------------------------------------------- reconciler: repository

\* The nil-safe getters of github.Repository.
GetDescription(g) == IF g = <<>> THEN <<>> ELSE g[1].description
GetArchived(g) == IF g = <<>> THEN FALSE ELSE g[1].archived
GetPrivate(g) == IF g = <<>> THEN FALSE ELSE g[1].private
GetDefaultBranch(g) == IF g = <<>> THEN <<>> ELSE g[1].defaultBranch

\* A faulty patch builder: description and default branch are compared exactly,
\* not case-insensitively.
RepoEdits_CaseSensitive(repo, g) ==
    [description |->
        IF IsSet(repo.description) /\ GetDescription(g) # Val(repo.description)
        THEN repo.description ELSE Unset,
     archived |->
        IF IsSet(repo.archived) /\ GetArchived(g) # Val(repo.archived)
        THEN repo.archived ELSE Unset,
     private |->
        IF IsSet(repo.private) /\ GetPrivate(g) # Val(repo.private)
        THEN repo.private ELSE Unset,
     defaultBranch |->
        IF IsSet(repo.defaultBranch) /\ GetDefaultBranch(g) # Val(repo.defaultBranch)
        THEN repo.defaultBranch ELSE Unset]

\* A faulty patch builder: the private flag is never put into the patch.
RepoEdits_DropPrivate(repo, g) ==
    [description |->
        IF IsSet(repo.description) /\ ~EqualFold(GetDescription(g), Val(repo.description))
        THEN repo.description ELSE Unset,
     archived |->
        IF IsSet(repo.archived) /\ GetArchived(g) # Val(repo.archived)
        THEN repo.archived ELSE Unset,
     private |-> Unset,
     defaultBranch |->
        IF IsSet(repo.defaultBranch)
           /\ ~EqualFold(GetDefaultBranch(g), Val(repo.defaultBranch))
        THEN repo.defaultBranch ELSE Unset]

\* ensureRepo: the patch `edits` built from the manifest repository and ghr.
RepoEdits(repo, g) ==
    [description |->
        IF IsSet(repo.description) /\ ~EqualFold(GetDescription(g), Val(repo.description))
        THEN repo.description ELSE Unset,
     archived |->
        IF IsSet(repo.archived) /\ GetArchived(g) # Val(repo.archived)
        THEN repo.archived ELSE Unset,
     private |->
        IF IsSet(repo.private) /\ GetPrivate(g) # Val(repo.private)
        THEN repo.private ELSE Unset,
     defaultBranch |->
        IF IsSet(repo.defaultBranch)
           /\ ~EqualFold(GetDefaultBranch(g), Val(repo.defaultBranch))
        THEN repo.defaultBranch ELSE Unset]

NoEdits == [description |-> Unset, archived |-> Unset, private |-> Unset,
            defaultBranch |-> Unset]

\* ensureRepo: the lines printed for the patch, in either mode.
EditLines(edits, d) ==
    (IF IsSet(edits.description)
     THEN <<Line("add", Tense(d), "update description", Val(edits.description))>> ELSE <<>>)
    \o (IF IsSet(edits.archived)
        THEN <<Line("add", Tense(d), "update archived", Val(edits.archived))>> ELSE <<>>)
    \o (IF IsSet(edits.private)
        THEN <<Line("add", Tense(d), "update private", Val(edits.private))>> ELSE <<>>)
    \o (IF IsSet(edits.defaultBranch)
        THEN <<Line("add", Tense(d), "update default branch", Val(edits.defaultBranch))>>
        ELSE <<>>)

\* ensureRepo: the write the patch step issues (none in a dry run, else UpdateRepo
\* with the patch, whatever the patch holds).
UpdateRepoCalls(d, name, edits) ==
    IF d THEN <<>> ELSE WriteCalls("UpdateRepo", <<name, edits>>)

\* createRepo: the request `state`.
CreateState(repo) ==
    [name |-> repo.name, description |-> repo.description, archived |-> repo.archived,
     topics |-> IF Len(repo.labels) > 0 THEN repo.labels ELSE <<>>,
     private |-> repo.private, defaultBranch |-> repo.defaultBranch]

\* createRepo: the lines printed, in either mode.
CreateLines(repo, state, d) ==
    <<Line("warn", Tense(d), "create repo", repo.name)>>
    \o (IF IsSet(state.description)
        THEN <<Line("add", Tense(d), "set description", Val(state.description))>> ELSE <<>>)
    \o (IF IsSet(state.archived)
        THEN <<Line("add", Tense(d), "set archived", Val(state.archived))>> ELSE <<>>)
    \o (IF Len(state.topics) > 0
        THEN <<Line("add", Tense(d), "set topics", state.topics)>> ELSE <<>>)
    \o (IF IsSet(state.private)
        THEN <<Line("add", Tense(d), "set private", Val(state.private))>> ELSE <<>>)
    \o (IF IsSet(state.defaultBranch)
        THEN <<Line("add", Tense(d), "set default branch", Val(state.defaultBranch))>>
        ELSE <<>>)

\* createRepo: the write issued.
CreateRepoCalls(d, state) == IF d THEN <<>> ELSE WriteCalls("CreateRepo", state)

\* ensureTopics: the verdict on the sorted topic list ghl and sorted label list l.
TopicsEqual(ghl, l) == SlicesEqual(ghl, l)

\* A faulty write decision: the dry flag is not consulted.
SetRepoTopicsCalls_IgnoreDry(d, equal, name, l) ==
    IF equal THEN <<>> ELSE WriteCalls("SetRepoTopics", <<name, l>>)

\* A faulty write: an incremental call carrying only the labels the fetched
\* repository does not have yet.
SetRepoTopicsCalls_Incremental(d, equal, name, l) ==
    LET new(t) == \A i \in 1..Len(ghr[1].topics) : ghr[1].topics[i] # t
    IN IF equal \/ d THEN <<>>
       ELSE WriteCalls("SetRepoTopics", <<name, SelectSeq(l, new)>>)

\* ensureTopics: the write issued.
SetRepoTopicsCalls(d, equal, name, l) ==
    IF equal \/ d THEN <<>> ELSE WriteCalls("SetRepoTopics", <<name, l>>)

\* ensureTopics: the line printed.
TopicLines(d, equal, l) ==
    IF equal THEN <<Line("info", "none", "labels are", l)>>
    ELSE <<Line("add", Tense(d), "update labels", l)>>

\* ------------------------------------------------ reconciler: branch rules

\* The github.ProtectionRequest built from a manifest branch:
\* requiredPullRequestReviews is whether the request carries a review
\* requirement, requiredStatusChecks is <<>> or <<the contexts in order>>.
ProtectionRequest(reviews, checks) ==
    [requiredPullRequestReviews |-> reviews, requiredStatusChecks |-> checks]

\* A faulty request builder: the flags' values are read where only their presence
\* counts, so require-PR = false yields no review requirement.
createProtectedBranchState_ByValue(branch) ==
    ProtectionRequest(IsSet(branch.protection.requirePr)
                          /\ Val(branch.protection.requirePr),
                      IF IsSet(branch.protection.checksMustPass)
                         /\ Val(branch.protection.checksMustPass)
                      THEN Some(branch.protection.requiredChecks) ELSE Unset)

\* createProtectedBranch: the request `state`.
createProtectedBranchState(branch) ==
    ProtectionRequest(IsSet(branch.protection.requirePr),
                      IF IsSet(branch.protection.checksMustPass)
                      THEN Some(branch.protection.requiredChecks) ELSE Unset)

\* UpdateBranchProtection: the request `state`.
UpdateBranchProtectionState(branch) ==
    ProtectionRequest(IsSet(branch.protection.requirePr),
                      IF IsSet(branch.protection.checksMustPass)
                      THEN Some(branch.protection.requiredChecks) ELSE Unset)

\* The lines both functions print for a request, `verb` being "set" or "update".
ProtectionLines(branch, state, d, verb) ==
    (IF state.requiredPullRequestReviews
     THEN <<Line("add", Tense(d), verb \o " require pr", Val(branch.protection.requirePr))>>
     ELSE <<>>)
    \o (IF IsSet(state.requiredStatusChecks)
        THEN <<Line("add", Tense(d), verb \o " require status checks",
                    Val(branch.protection.checksMustPass))>>
             \o (IF Len(Val(state.requiredStatusChecks)) > 0
                 THEN <<Line("add", Tense(d), verb \o " required checks",
                             branch.protection.requiredChecks)>>
                 ELSE <<>>)
        ELSE <<>>)

\* createProtectedBranch: the first line printed.
CreateBranchLine(d, branch, repo) ==
    IF d THEN Line("add", "plan", "create protected branch", <<branch.name, repo.name>>)
    ELSE Line("warn", "done", "create protected branch", <<branch.name, repo.name>>)

\* A write decision with drift detection: no call when the remote protection
\* already has the requested requirements.
ProtectBranchCalls_OnDrift(d, repo, branch, state) ==
    IF d \/ (/\ remote.repos[repo] # <<>>
             /\ remote.repos[repo][1].protection[branch] # <<>>
             /\ remote.repos[repo][1].protection[branch][1].pr
                    = state.requiredPullRequestReviews
             /\ remote.repos[repo][1].protection[branch][1].checks
                    = state.requiredStatusChecks)
    THEN <<>> ELSE WriteCalls("ProtectBranch", <<repo, branch, state>>)

\* createProtectedBranch / UpdateBranchProtection: the write issued.
ProtectBranchCalls(d, repo, branch, state) ==
    IF d THEN <<>> ELSE WriteCalls("ProtectBranch", <<repo, branch, state>>)

\* ensureSignedCommits: whether the fetched enforcement differs from the flag.
SignedCommitsDiffer(enabled, flag) == enabled # flag

\* A faulty write decision: the comparison is not consulted.
RequireSignedCommitsCalls_Always(d, differ, repo, branch) ==
    IF ~d THEN WriteCalls("RequireSignedCommits", <<repo, branch>>) ELSE <<>>

\* ensureSignedCommits: the write issued.
RequireSignedCommitsCalls(d, differ, repo, branch) ==
    IF differ /\ ~d THEN WriteCalls("RequireSignedCommits", <<repo, branch>>) ELSE <<>>

\* ensureSignedCommits: the line printed.
SignedLines(d, differ, flag) ==
    IF differ THEN <<Line("add", Tense(d), "update require signed commits", flag)>>
    ELSE <<Line("info", "none", "require signed commits is", flag)>>

\* ------------------------------------------------------ reconciler: members

\* managedMember: the remote login matches a manifest username.
managedMember(manifestMembers, login) ==
    \E i \in 1..Len(manifestMembers) : EqualFold(manifestMembers[i].username, login)

\* A faulty diff: usernames and logins compared byte for byte.
missingMembers_CaseSensitive(manifestMembers, githubMembers) ==
    LET found(mm) == \E j \in 1..Len(githubMembers) : mm.username = githubMembers[j]
        missing(mm) == ~found(mm)
    IN SelectSeq(manifestMembers, missing)

\* missingMembers: the manifest members no remote login matches, in manifest order.
missingMembers(manifestMembers, githubMembers) ==
    LET found(mm) == \E j \in 1..Len(githubMembers) : EqualFold(mm.username, githubMembers[j])
        missing(mm) == ~found(mm)
    IN SelectSeq(manifestMembers, missing)

\* membersRun: the line printed for each remote member.
MemberLines(manifestMembers, ps) ==
    [i \in 1..Len(ps) |->
        IF ~managedMember(manifestMembers, ps[i])
        THEN Line("warn", "none", "exists in github but not in manifest", ps[i])
        ELSE Line("info", "none", "exists in github", ps[i])]

\* inviteMembers: what it hands to Client.InviteMember and prints for member m.
InviteKey(m) == m.name

\* Client.InviteMember: the intent appended to the work list.
Intent(orgName, username) == [org |-> orgName, username |-> username]

\* A faulty work list: the intents are queued last member first.
InviteQueue_Reversed(orgName, members, d) ==
    IF d THEN <<>>
    ELSE [i \in 1..Len(members) |->
            Intent(orgName, InviteKey(members[Len(members) + 1 - i]))]

\* inviteMembers: the intents queued, in order (none in a dry run).
InviteQueue(orgName, members, d) ==
    IF d THEN <<>> ELSE [i \in 1..Len(members) |-> Intent(orgName, InviteKey(members[i]))]

\* inviteMembers: the lines printed. A dry run prints "invite"; an apply run prints
\* Client.InviteMember's "invite" and then "invited".
RECURSIVE InviteLines(_, _)
InviteLines(members, d) ==
    IF members = <<>> THEN <<>>
    ELSE (IF d THEN <<Line("add", "plan", "invite", InviteKey(Head(members)))>>
          ELSE <<Line("add", "plan", "invite", InviteKey(Head(members))),
                 Line("add", "done", "invite", InviteKey(Head(members)))>>)
         \o InviteLines(Tail(members), d)

\* The queued closure of Client.InviteMember: Users.Get, then
\* Organizations.CreateOrgInvitation, neither behind the limiter.
InviteUserGet(o) ==
    IF o.err = "none" THEN Ok
    ELSE IF o.err = "ratelimit" THEN Err(ErrRateLimitError)
    ELSE IF o.status = 0 THEN Panic
    ELSE IF o.status = StatusNotFound THEN Err(ErrUserNotFound)
    ELSE Err("get user")
InviteCreate(o) ==
    IF o.err = "none" THEN Ok
    ELSE IF o.err = "ratelimit" THEN Err(ErrRateLimitError)
    ELSE Err("create invitation")

\* ------------------------------------------------------------ control flow

\* Where a command's run function returns nil: the work list is drained if it
\* holds anything, else the run is over.
ReturnPc == IF queue # <<>> THEN "Run" ELSE "done"

Pos(p, r, b) == [pc |-> p, ri |-> r, bi |-> b]

\* reposRun's loop after repository r: the next repository, or return nil.
NextRepoPos(r) ==
    IF r < Len(org.repositories) THEN Pos("ensureRepo", r + 1, 0)
    ELSE Pos(ReturnPc, r, 0)

\* ensureProtectedBranches' loop after branch b of repository r.
NextBranchPos(r, b) ==
    IF b < Len(org.repositories[r].protectedBranches)
    THEN Pos("ensureProtectedBranches", r, b + 1)
    ELSE NextRepoPos(r)

GoTo(pos) ==
    /\ pc' = pos.pc
    /\ ri' = pos.ri
    /\ bi' = pos.bi
    /\ outcome' = IF pos.pc = "done" THEN "ok" ELSE "running"
    /\ err' = err

\* A faulty loop: the error is recorded and the loop goes on to the next repository.
Ended_KeepGoing(res) ==
    /\ pc' = NextRepoPos(ri).pc
    /\ ri' = NextRepoPos(ri).ri
    /\ bi' = NextRepoPos(ri).bi
    /\ outcome' = IF res.tag = "panic" THEN "panic" ELSE "error"
    /\ err' = res.err

\* handleError (res.tag = "err") or a runtime fault (res.tag = "panic") ends the run.
Ended(res) ==
    /\ pc' = "done"
    /\ outcome' = IF res.tag = "panic" THEN "panic" ELSE "error"
    /\ err' = res.err
    /\ UNCHANGED <<ri, bi>>

Repo == org.repositories[ri]
PBranch == org.repositories[ri].protectedBranches[bi]
RemoteHas(name) == remote.repos[name] # <<>>
RemoteProtected(name, branch) ==
    RemoteHas(name) /\ remote.repos[name][1].protection[branch] # <<>>

listVars == <<account, orgFound, page, repos>>

\* ------------------------------------------------------------------- Init

\* The first position of each command: applyRun and checkMembersRun call
\* membersRun, checkReposRun calls reposRun, applyTeamsRun calls teamsRun;
\* "listRepos" is Client.GetRepos.
Entry(c) ==
    CASE c = "checkMembers" -> "membersRun"
      [] c = "checkRepos" -> "reposRun"
      [] c = "apply" -> "membersRun"
      [] c = "applyTeams" -> "teamsRun"
      [] c = "listRepos" -> "GetRepos"

Inputs ==
    {[cmd |-> c, file |-> in[1], remote |-> in[2], account |-> NoAccount] :
        c \in {"checkRepos", "apply"}, in \in RepoFamilies}
    \cup {[cmd |-> c, file |-> in[1], remote |-> in[2], account |-> NoAccount] :
        c \in {"checkMembers", "apply", "applyTeams"}, in \in MembersFamily}
    \cup {[cmd |-> "listRepos", file |-> Organization(<<>>, <<>>),
           remote |-> Remote(<<>>, NoRepos), account |-> a] : a \in Accounts}

\* The header every command prints before its run function.
FirstLines(c) == IF c = "listRepos" THEN <<>> ELSE <<Header("Org")>>

Init ==
    \E in \in Inputs :
        /\ cmd = in.cmd
        /\ file = in.file
        /\ org = in.file
        /\ remote = in.remote
        /\ start = in.remote
        /\ account = in.account
        /\ run = 1
        /\ pc = Entry(in.cmd)
        /\ ri = 0
        /\ bi = 0
        /\ ghr = <<>>
        /\ reports = FirstLines(in.cmd)
        /\ calls = <<>>
        /\ outcome = "running"
        /\ err = ""
        /\ queue = <<>>
        /\ fault = <<>>
        /\ orgFound = TRUE
        /\ page = 0
        /\ repos = <<>>
        /\ history = <<>>

\* ---------------------------------------------------------------- actions

\* membersRun with inviteMembers: list the members, report each, then plan (dry)
\* or queue (apply) an invitation for every missing manifest member. applyRun goes
\* on to teamsRun.
membersRun ==
    /\ pc = "membersRun"
    /\ \E o \in CallAnswers :
        LET res == GetMembers(o)
            ps == remote.members
            missing == missingMembers(org.people, ps)
            q == InviteQueue(org.name, missing, dry)
        IN /\ calls' = calls \o GetMembersCalls(org.name)
           /\ fault' = NoteFault(fault, o, Len(calls'))
           /\ IF res.tag = "ok"
              THEN /\ reports' = reports \o <<Header("Members")>>
                                   \o MemberLines(org.people, ps)
                                   \o InviteLines(missing, dry)
                   /\ queue' = queue \o q
                   /\ IF cmd = "apply"
                      THEN GoTo(Pos("teamsRun", ri, bi))
                      ELSE GoTo(Pos(IF queue \o q # <<>> THEN "Run" ELSE "done", ri, bi))
              ELSE /\ reports' = reports \o <<Header("Members")>>
                   /\ queue' = queue
                   /\ Ended(res)
    /\ UNCHANGED <<cmd, run, file, org, remote, ghr, start, history>>
    /\ UNCHANGED listVars

\* The call of teamsRun by applyRun and applyTeamsRun. The body of teamsRun is not
\* part of the sources: it returns nil or an error, and what it prints and calls
\* is left out. On an error the caller returns handleError; on nil applyRun goes
\* on to reposRun and applyTeamsRun returns.
teamsRun ==
    /\ pc = "teamsRun"
    /\ \E res \in {Ok, Err(ErrTeamsRun)} :
        IF res.tag = "ok"
        THEN GoTo(IF cmd = "apply" THEN Pos("reposRun", ri, bi) ELSE Pos(ReturnPc, ri, bi))
        ELSE Ended(res)
    /\ UNCHANGED <<cmd, run, file, org, remote, ghr, reports, calls, queue, fault, start,
                   history>>
    /\ UNCHANGED listVars

\* reposRun: the header, then the loop over org.Repositories.
reposRun ==
    /\ pc = "reposRun"
    /\ reports' = reports \o <<Header("Repos")>>
    /\ GoTo(NextRepoPos(0))
    /\ UNCHANGED <<cmd, run, file, org, remote, ghr, calls, queue, fault, start, history>>
    /\ UNCHANGED listVars

\* reposRun's loop body up to ensureRepo's GetRepo and the branch on its error.
ensureRepo_GetRepo ==
    /\ pc = "ensureRepo"
    /\ reports' = reports \o <<Header(Repo.name)>>
    /\ calls' = calls \o GetRepoCalls(Repo.name)
    /\ \E o \in LookupAnswers(RemoteHas(Repo.name)) :
        LET res == GetRepo(o)
        IN /\ fault' = NoteFault(fault, o, Len(calls'))
           /\ IF res.tag = "ok"
              THEN /\ ghr' = remote.repos[Repo.name]
                   /\ GoTo(Pos("ensureRepoEdits", ri, bi))
              ELSE IF res.tag = "err" /\ res.err = ErrRepoNotFound
              THEN /\ ghr' = <<>>
                   /\ GoTo(Pos("createRepo", ri, bi))
              ELSE /\ ghr' = <<>>
                   /\ Ended(res)
    /\ UNCHANGED <<cmd, run, file, org, remote, queue, start, history>>
    /\ UNCHANGED listVars

\* createRepo, called when GetRepo found no repository.
createRepo ==
    /\ pc = "createRepo"
    /\ LET state == CreateState(Repo)
           cs == CreateRepoCalls(dry, state)
           issued == cs # <<>>
       IN \E o \in (IF issued THEN CallAnswers ELSE {Ok200}) :
            LET res == WriteResult(o, "create repo")
            IN /\ calls' = calls \o cs
               /\ fault' = NoteFault(fault, o, Len(calls'))
               /\ IF res.tag = "ok"
                  THEN /\ remote' = IF issued
                                    THEN [remote EXCEPT !.repos[Repo.name] =
                                                            <<CreatedRepo(state)>>]
                                    ELSE remote
                       /\ reports' = reports \o CreateLines(Repo, state, dry)
                       /\ GoTo(Pos("ensureRepoEdits", ri, bi))
                  ELSE /\ UNCHANGED <<remote, reports>>
                       /\ Ended(res)
    /\ UNCHANGED <<cmd, run, file, org, ghr, queue, start, history>>
    /\ UNCHANGED listVars

\* ensureRepo from the patch to the call of ensureTopics: build edits against ghr
\* (which createRepo left nil), then report (dry) or UpdateRepo and report (apply).
ensureRepo_UpdateRepo ==
    /\ pc = "ensureRepoEdits"
    /\ LET edits == RepoEdits(Repo, ghr)
           cs == UpdateRepoCalls(dry, Repo.name, edits)
           issued == cs # <<>>
       IN \E o \in (IF issued THEN CallAnswers ELSE {Ok200}) :
            LET res == WriteResult(o, "update repo")
            IN /\ calls' = calls \o cs
               /\ fault' = NoteFault(fault, o, Len(calls'))
               /\ IF res.tag = "ok"
                  THEN /\ remote' = IF issued /\ RemoteHas(Repo.name)
                                    THEN [remote EXCEPT !.repos[Repo.name] =
                                            <<PatchedRepo(remote.repos[Repo.name][1], edits)>>]
                                    ELSE remote
                       /\ reports' = reports \o EditLines(edits, dry)
                       /\ GoTo(Pos("ensureTopics", ri, bi))
                  ELSE /\ UNCHANGED <<remote, reports>>
                       /\ Ended(res)
    /\ UNCHANGED <<cmd, run, file, org, ghr, queue, start, history>>
    /\ UNCHANGED listVars

\* ensureTopics. Both slices are sorted in place: ghr.Topics and the manifest's
\* repo.Labels. ghr is nil after createRepo, and ghr.Topics then faults.
ensureTopics ==
    /\ pc = "ensureTopics"
    /\ IF Len(Repo.labels) = 0
       THEN /\ GoTo(NextBranchPos(ri, 0))
            /\ UNCHANGED <<org, ghr, remote, reports, calls, fault>>
       ELSE IF ghr = <<>>
       THEN /\ Ended(Panic)
            /\ UNCHANGED <<org, ghr, remote, reports, calls, fault>>
       ELSE LET ghl == SortStrings(ghr[1].topics)
                l == SortStrings(Repo.labels)
                equal == TopicsEqual(ghl, l)
                cs == SetRepoTopicsCalls(dry, equal, Repo.name, l)
                issued == cs # <<>>
            IN \E o \in (IF issued THEN CallAnswers ELSE {Ok200}) :
                LET res == WriteResult(o, "set topics")
                IN /\ ghr' = <<[ghr[1] EXCEPT !.topics = ghl]>>
                   /\ org' = [org EXCEPT !.repositories[ri].labels = l]
                   /\ calls' = calls \o cs
                   /\ fault' = NoteFault(fault, o, Len(calls'))
                   /\ IF res.tag = "ok"
                      THEN /\ remote' = IF issued /\ RemoteHas(Repo.name)
                                        THEN [remote EXCEPT
                                                !.repos[Repo.name][1].topics = l]
                                        ELSE remote
                           /\ reports' = reports \o TopicLines(dry, equal, l)
                           /\ GoTo(NextBranchPos(ri, 0))
                      ELSE /\ UNCHANGED <<remote, reports>>
                           /\ Ended(res)
    /\ UNCHANGED <<cmd, run, file, queue, start, history>>
    /\ UNCHANGED listVars

\* ensureProtectedBranches: the lookup for one manifest branch and the branch on
\* its error (not-found creates, any other error returns, success updates).
ensureProtectedBranches ==
    /\ pc = "ensureProtectedBranches"
    /\ calls' = calls \o GetBranchProtectionCalls(Repo.name, PBranch.name)
    /\ \E o \in LookupAnswers(RemoteProtected(Repo.name, PBranch.name)) :
        LET res == GetBranchProtection(o)
        IN /\ fault' = NoteFault(fault, o, Len(calls'))
           /\ IF res.tag = "ok"
              THEN GoTo(Pos("UpdateBranchProtection", ri, bi))
              ELSE IF res.tag = "err" /\ res.err = ErrBranchProtectionNotFound
              THEN GoTo(Pos("createProtectedBranch", ri, bi))
              ELSE Ended(res)
    /\ UNCHANGED <<cmd, run, file, org, remote, ghr, reports, queue, start, history>>
    /\ UNCHANGED listVars

\* The provider's state after ProtectBranch(repo, branch, state).
Protected(rem, repo, branch, state) ==
    [rem EXCEPT !.repos[repo][1].protection[branch] =
        <<ProtectedAs(rem.repos[repo][1].protection[branch], state)>>]

\* createProtectedBranch up to its call of ensureSignedCommits.
createProtectedBranch ==
    /\ pc = "createProtectedBranch"
    /\ LET state == createProtectedBranchState(PBranch)
           cs == ProtectBranchCalls(dry, Repo.name, PBranch.name, state)
           issued == cs # <<>>
       IN \E o \in (IF issued THEN CallAnswers ELSE {Ok200}) :
            LET res == WriteResult(o, "protect branch")
            IN /\ calls' = calls \o cs
               /\ fault' = NoteFault(fault, o, Len(calls'))
               /\ IF res.tag = "ok"
                  THEN /\ remote' = IF issued /\ RemoteHas(Repo.name)
                                    THEN Protected(remote, Repo.name, PBranch.name, state)
                                    ELSE remote
                       /\ reports' = reports \o <<CreateBranchLine(dry, PBranch, Repo)>>
                                       \o ProtectionLines(PBranch, state, dry, "set")
                       /\ GoTo(Pos("ensureSignedCommits", ri, bi))
                  ELSE /\ UNCHANGED <<remote, reports>>
                       /\ Ended(res)
    /\ UNCHANGED <<cmd, run, file, org, ghr, queue, start, history>>
    /\ UNCHANGED listVars

\* UpdateBranchProtection up to its call of ensureSignedCommits: the request is
\* built from the manifest alone and issued whenever the lookup succeeded.
UpdateBranchProtection ==
    /\ pc = "UpdateBranchProtection"
    /\ LET state == UpdateBranchProtectionState(PBranch)
           cs == ProtectBranchCalls(dry, Repo.name, PBranch.name, state)
           issued == cs # <<>>
           first == Line("info", "none", "protected branch", <<PBranch.name, Repo.name>>)
       IN \E o \in (IF issued THEN CallAnswers ELSE {Ok200}) :
            LET res == WriteResult(o, "protect branch")
            IN /\ calls' = calls \o cs
               /\ fault' = NoteFault(fault, o, Len(calls'))
               /\ IF res.tag = "ok"
                  THEN /\ remote' = IF issued /\ RemoteHas(Repo.name)
                                    THEN Protected(remote, Repo.name, PBranch.name, state)
                                    ELSE remote
                       /\ reports' = reports \o <<first>>
                                       \o ProtectionLines(PBranch, state, dry, "update")
                       /\ GoTo(Pos("ensureSignedCommits", ri, bi))
                  ELSE /\ remote' = remote
                       /\ reports' = reports \o <<first>>
                       /\ Ended(res)
    /\ UNCHANGED <<cmd, run, file, org, ghr, queue, start, history>>
    /\ UNCHANGED listVars

\* ensureSignedCommits: nothing when the flag is unset; else fetch the protection
\* (any error, not-found included, is returned), compare and patch on mismatch.
ensureSignedCommits ==
    /\ pc = "ensureSignedCommits"
    /\ LET flag == PBranch.protection.signedCommits
       IN IF ~IsSet(flag)
          THEN /\ GoTo(NextBranchPos(ri, bi))
               /\ UNCHANGED <<remote, reports, calls, fault>>
          ELSE \E o1 \in LookupAnswers(RemoteProtected(Repo.name, PBranch.name)),
                  o2 \in CallAnswers :
                LET res1 == GetBranchProtection(o1)
                    enabled == remote.repos[Repo.name][1].protection[PBranch.name][1].signed
                    differ == SignedCommitsDiffer(enabled, Val(flag))
                    cs == RequireSignedCommitsCalls(dry, differ, Repo.name, PBranch.name)
                    issued == cs # <<>>
                    res2 == IF issued THEN WriteResult(o2, "require signed commits") ELSE Ok
                IN IF res1.tag # "ok"
                   THEN /\ calls' = calls \o GetBranchProtectionCalls(Repo.name, PBranch.name)
                        /\ fault' = NoteFault(fault, o1, Len(calls'))
                        /\ UNCHANGED <<remote, reports>>
                        /\ Ended(res1)
                   ELSE /\ calls' = calls
                                \o GetBranchProtectionCalls(Repo.name, PBranch.name) \o cs
                        /\ fault' = NoteFault(fault, IF issued THEN o2 ELSE Ok200, Len(calls'))
                        /\ IF res2.tag = "ok"
                           THEN /\ remote' =
                                    IF issued
                                    THEN [remote EXCEPT
                                            !.repos[Repo.name][1].protection[PBranch.name] =
                                                <<SignedAs(@[1])>>]
                                    ELSE remote
                                /\ reports' = reports \o SignedLines(dry, differ, Val(flag))
                                /\ GoTo(NextBranchPos(ri, bi))
                           ELSE /\ UNCHANGED <<remote, reports>>
                                /\ Ended(res2)
    /\ UNCHANGED <<cmd, run, file, org, ghr, queue, start, history>>
    /\ UNCHANGED listVars

\* Draining the work list: the closure Client.InviteMember queued for the head
\* intent runs (Users.Get, then CreateOrgInvitation); an error ends the run.
RunQueued ==
    /\ pc = "Run"
    /\ queue # <<>>
    /\ LET it == Head(queue)
       IN \E o1 \in LookupAnswers(UserExists(it.username)), o2 \in CallAnswers :
            LET res1 == InviteUserGet(o1)
                res2 == InviteCreate(o2)
                get == Call("Users.Get", it.username)
                inv == Call("CreateOrgInvitation", <<it.org, it.username>>)
            IN IF res1.tag # "ok"
               THEN /\ calls' = calls \o <<get>>
                    /\ fault' = NoteFault(fault, o1, Len(calls'))
                    /\ UNCHANGED <<remote, reports, queue>>
                    /\ Ended(res1)
               ELSE /\ calls' = calls \o <<get, inv>>
                    /\ fault' = NoteFault(fault, o2, Len(calls'))
                    /\ IF res2.tag = "ok"
                       THEN /\ remote' = [remote EXCEPT !.invited = Append(@, it.username)]
                            /\ reports' = reports
                                 \o <<Line("success", "done", "invite", it.username)>>
                            /\ queue' = Tail(queue)
                            /\ GoTo(Pos(IF Tail(queue) # <<>> THEN "Run" ELSE "done", ri, bi))
                       ELSE /\ UNCHANGED <<remote, reports, queue>>
                            /\ Ended(res2)
    /\ UNCHANGED <<cmd, run, file, org, ghr, start, history>>
    /\ UNCHANGED listVars

\* ------------------------------------------------------ Client.GetRepos

\* The provider's listing of an account: repositories 1..count, PerPage to a
\* page; page 0 is the first page, like page 1. next is the NextPage of the
\* response, 0 on the last page.
IsArchived(acct, i) == acct.archMod > 0 /\ i % acct.archMod = 0
ProviderPage(acct, p) ==
    LET ep == IF p = 0 THEN 1 ELSE p
        lo == (ep - 1) * PerPage + 1
        hi == IF ep * PerPage < acct.count THEN ep * PerPage ELSE acct.count
    IN [rs |-> IF hi >= lo THEN [i \in 1..(hi - lo + 1) |-> lo + i - 1] ELSE <<>>,
        next |-> IF hi < acct.count THEN ep + 1 ELSE 0]

\* A faulty filter: every repository of the page is kept.
NonArchived_KeepAll(acct, rs) == rs

\* GetRepos: the loop's filter, rs[i].GetArchived().
NonArchived(acct, rs) ==
    LET keep(i) == ~IsArchived(acct, i)
    IN SelectSeq(rs, keep)

\* GetRepos: the page of the next request after a response with NextPage `next`.
AdvancePage(next) == next

\* A faulty probe: a not-found organization is an error, the user is never tried.
ProbeOrg_NoUser(o, acct) ==
    IF o.err # "none"
    THEN IF o.err = "ratelimit" THEN Err(ErrHitRateLimit) ELSE Err("get org")
    ELSE IF acct.count < 1 THEN Err(ErrNoReposFound)
    ELSE [tag |-> "list", err |-> ""]

\* GetRepos up to the probe of the account as an organization: "user" (probe the
\* user), "list" (start paging) or the error returned. org is nil on any error.
ProbeOrg(o, acct) ==
    IF o.status = 0 /\ o.err # "none"
    THEN IF o.err = "ratelimit" THEN Err(ErrHitRateLimit) ELSE Err("get org")
    ELSE IF o.status = StatusNotFound THEN [tag |-> "user", err |-> ""]
    ELSE IF (IF o.err = "none" THEN acct.count ELSE 0) < 1 THEN Err(ErrNoReposFound)
    ELSE [tag |-> "list", err |-> ""]

\* GetRepos: the probe of the account as a user.
ProbeUser(o, acct) ==
    IF o.err # "none"
    THEN IF o.err = "ratelimit" THEN Err(ErrHitRateLimit) ELSE Err("get user")
    ELSE IF acct.count < 1 THEN Err(ErrNoReposFound)
    ELSE [tag |-> "list", err |-> ""]

\* GetRepos: the verdict on one list call.
ListResult(o) ==
    IF o.err # "none"
    THEN IF o.err = "ratelimit" THEN Err(ErrHitRateLimit) ELSE Err("list repos")
    ELSE Ok

GetRepos_Org ==
    /\ pc = "GetRepos"
    /\ calls' = calls \o <<Wait, Call("Organizations.Get", "account")>>
    /\ \E o \in LookupAnswers(account.kind = "org") :
        LET res == ProbeOrg(o, account)
        IN /\ fault' = NoteFault(fault, o, Len(calls'))
           /\ IF res.tag = "user"
              THEN /\ orgFound' = FALSE
                   /\ GoTo(Pos("GetRepos_User", ri, bi))
              ELSE IF res.tag = "list"
              THEN /\ orgFound' = orgFound
                   /\ GoTo(Pos("GetRepos_List", ri, bi))
              ELSE /\ orgFound' = orgFound
                   /\ Ended(res)
    /\ UNCHANGED <<cmd, run, file, org, remote, account, ghr, reports, queue, page,
                   repos, start, history>>

GetRepos_User ==
    /\ pc = "GetRepos_User"
    /\ calls' = calls \o <<Wait, Call("Users.Get", "account")>>
    /\ \E o \in LookupAnswers(account.kind = "user") :
        LET res == ProbeUser(o, account)
        IN /\ fault' = NoteFault(fault, o, Len(calls'))
           /\ IF res.tag = "list"
              THEN GoTo(Pos("GetRepos_List", ri, bi))
              ELSE Ended(res)
    /\ UNCHANGED <<cmd, run, file, org, remote, account, ghr, reports, queue, orgFound,
                   page, repos, start, history>>

\* One turn of the paging loop: the limiter, the list call for `page`, the filter,
\* then the break on NextPage = 0 or the move to NextPage.
GetRepos_List ==
    /\ pc = "GetRepos_List"
    /\ calls' = calls \o <<Wait, Call(IF orgFound THEN "Repositories.ListByOrg"
                                                  ELSE "Repositories.List", page)>>
    /\ \E o \in CallAnswers :
        LET res == ListResult(o)
            resp == ProviderPage(account, page)
        IN /\ fault' = NoteFault(fault, o, Len(calls'))
           /\ IF res.tag = "ok"
              THEN /\ repos' = repos \o NonArchived(account, resp.rs)
                   /\ IF resp.next = 0
                      THEN /\ page' = page
                           /\ GoTo(Pos("done", ri, bi))
                      ELSE /\ page' = AdvancePage(resp.next)
                           /\ GoTo(Pos("GetRepos_List", ri, bi))
              ELSE /\ repos' = <<>>
                   /\ page' = page
                   /\ Ended(res)
    /\ UNCHANGED <<cmd, run, file, org, remote, account, ghr, reports, queue, orgFound,
                   start, history>>

\* ------------------------------------------------------------ the next run

\* What is kept of a finished run.
Summary ==
    [cmd |-> cmd, reports |-> reports, calls |-> calls, outcome |-> outcome,
     err |-> err, start |-> start, end |-> remote]

\* The operator runs apply next, on the same manifest file and the remote as the
\* finished run left it: a new process, with a fresh client and manifest.
NextRun ==
    /\ pc = "done"
    /\ run < MaxRuns
    /\ fault = <<>>
    /\ cmd # "listRepos"
    /\ history' = Append(history, Summary)
    /\ run' = run + 1
    /\ cmd' = "apply"
    /\ org' = file
    /\ start' = remote
    /\ pc' = Entry("apply")
    /\ ri' = 0
    /\ bi' = 0
    /\ ghr' = <<>>
    /\ reports' = FirstLines("apply")
    /\ calls' = <<>>
    /\ outcome' = "running"
    /\ err' = ""
    /\ queue' = <<>>
    /\ UNCHANGED <<file, remote, fault>>
    /\ UNCHANGED listVars

Next ==
    \/ membersRun
    \/ teamsRun
    \/ reposRun
    \/ ensureRepo_GetRepo
    \/ createRepo
    \/ ensureRepo_UpdateRepo
    \/ ensureTopics
    \/ ensureProtectedBranches
    \/ createProtectedBranch
    \/ UpdateBranchProtection
    \/ ensureSignedCommits
    \/ RunQueued
    \/ GetRepos_Org
    \/ GetRepos_User
    \/ GetRepos_List
    \/ NextRun

Spec == Init /\ [][Next]_vars

\* ------------------------------------------------------------------ claims

\* The ops among `ops` of a call log.
OpsOf(cs) == {cs[i].op : i \in 1..Len(cs)}

RepoWriteOps == {"CreateRepo", "UpdateRepo", "SetRepoTopics", "ProtectBranch",
                 "RequireSignedCommits"}

\* This run is an apply run that directly follows an apply run which completed.
SecondApply ==
    /\ history # <<>>
    /\ cmd = "apply"
    /\ history[Len(history)].cmd = "apply"
    /\ history[Len(history)].outcome = "ok"

\* C1: the apply run that follows a completed apply run, with nothing changed in
\* between, issues no repository write call at all (no create-repo, update-repo,
\* set-topics, update-branch-protection or require-signed-commits call).
C1_ZeroWrites == SecondApply => OpsOf(calls) \cap RepoWriteOps = {}

\* C2: a dry run issues no write call, queues no invitation and leaves the
\* provider's state as it was when the run began.
C2_DryNeverWrites ==
    dry =>
        /\ OpsOf(calls) \cap WriteOps = {}
        /\ queue = <<>>
        /\ remote = start

\* A dry run has completed after planning a topic update for a repository whose
\* topics differ from the manifest labels.
C2_Witness ==
    /\ cmd = "checkRepos"
    /\ pc = "done"
    /\ outcome = "ok"
    /\ \E i \in 1..Len(reports) :
          reports[i].what = "update labels" /\ reports[i].tense = "plan"

\* The lines a run printed after the header `h` (none when it printed no such header).
SectionAfter(rep, h) ==
    IF \E i \in 1..Len(rep) : rep[i].cat = "header" /\ rep[i].what = h
    THEN LET i == CHOOSE i \in 1..Len(rep) : rep[i].cat = "header" /\ rep[i].what = h
         IN SubSeq(rep, i + 1, Len(rep))
    ELSE <<>>

\* Two reports are the same line by line: marker, wording and value, the tense aside.
SameModuloTense(a, b) ==
    /\ Len(a) = Len(b)
    /\ \A i \in 1..Len(a) :
          /\ a[i].cat = b[i].cat
          /\ a[i].what = b[i].what
          /\ a[i].arg = b[i].arg

\* C3 as stated, for repositories: when a dry run (check repos) is followed by an
\* apply run on the same manifest and remote, the provider never faults and
\* teamsRun does not fail, the two runs print the same repository report, the
\* tense aside, and end the same way.
C3_Parity ==
    (/\ history # <<>>
     /\ history[Len(history)].cmd = "checkRepos"
     /\ cmd = "apply"
     /\ pc = "done"
     /\ err # ErrTeamsRun
     /\ fault = <<>>)
    => /\ SameModuloTense(SectionAfter(history[Len(history)].reports, "Repos"),
                          SectionAfter(reports, "Repos"))
       /\ history[Len(history)].outcome = outcome

\* A string in lower case.
LowerStr(x) == [i \in 1..Len(x) |-> ToLower(x[i])]

\* The apply-mode patch step of ensureRepo has just issued UpdateRepo for a
\* repository that GetRepo found.
PatchedPresent ==
    /\ pc = "ensureTopics"
    /\ ~dry
    /\ ghr # <<>>
    /\ calls[Len(calls)].op = "UpdateRepo"

\* C4: the patch of a present repository holds field f, with the manifest's value,
\* exactly when the manifest sets f and the value differs from the remote one
\* (description and default branch compared without regard to case).
C4_MinimalPatch ==
    PatchedPresent =>
        LET e == calls[Len(calls)].arg[2]
            g == ghr[1]
            r == Repo
        IN /\ IsSet(e.description) <=>
                (IsSet(r.description)
                 /\ LowerStr(g.description) # LowerStr(Val(r.description)))
           /\ IsSet(e.archived) <=> (IsSet(r.archived) /\ g.archived # Val(r.archived))
           /\ IsSet(e.private) <=> (IsSet(r.private) /\ g.private # Val(r.private))
           /\ IsSet(e.defaultBranch) <=>
                (IsSet(r.defaultBranch)
                 /\ LowerStr(g.defaultBranch) # LowerStr(Val(r.defaultBranch)))
           /\ IsSet(e.description) => e.description = r.description
           /\ IsSet(e.archived) => e.archived = r.archived
           /\ IsSet(e.private) => e.private = r.private
           /\ IsSet(e.defaultBranch) => e.defaultBranch = r.defaultBranch

\* The manifest sets all four fields, only the description differs from the
\* remote (the default branch differs in case alone), and the patch issued sets
\* the description and nothing else.
C4_Witness ==
    /\ PatchedPresent
    /\ IsSet(Repo.description) /\ IsSet(Repo.archived) /\ IsSet(Repo.private)
    /\ IsSet(Repo.defaultBranch)
    /\ Val(Repo.defaultBranch) # ghr[1].defaultBranch
    /\ calls[Len(calls)].arg[2] = [NoEdits EXCEPT !.description = Repo.description]

\* Two lists hold the same elements the same number of times.
IsPermutation(a, b) ==
    /\ Len(a) = Len(b)
    /\ \A x \in Range(a) \cup Range(b) :
          Cardinality({i \in 1..Len(a) : a[i] = x})
              = Cardinality({i \in 1..Len(b) : b[i] = x})

\* ensureTopics is about to run on a non-empty label list that is a permutation
\* of the topics of the repository GetRepo returned.
TopicsPermuted ==
    /\ pc = "ensureTopics"
    /\ Len(Repo.labels) > 0
    /\ ghr # <<>>
    /\ IsPermutation(Repo.labels, ghr[1].topics)

\* C5: when the manifest labels are a permutation of the remote topics,
\* ensureTopics issues no call in either mode, leaves the remote as it is and
\* prints one informational line carrying the labels.
C5_TopicOrder ==
    [][TopicsPermuted =>
          /\ calls' = calls
          /\ remote' = remote
          /\ outcome' # "error"
          /\ Len(reports') = Len(reports) + 1
          /\ reports'[Len(reports')].cat = "info"
          /\ reports'[Len(reports')].what = "labels are"
          /\ IsPermutation(reports'[Len(reports')].arg, Repo.labels)]_vars

\* Manifest labels [b, a] against remote topics [a, b]: the run completed, its last
\* line is the informational one and no set-topics call was issued.
C5_Witness ==
    /\ run = 1
    /\ pc = "done"
    /\ outcome = "ok"
    /\ Len(file.repositories) = 1
    /\ file.repositories[1].labels = <<<<98>>, <<97>>>>
    /\ start.repos["r1"] # <<>>
    /\ start.repos["r1"][1].topics = <<<<97>>, <<98>>>>
    /\ reports[Len(reports)].what = "labels are"
    /\ "SetRepoTopics" \notin OpsOf(calls)

\* The ProtectBranch calls of a call log for one branch of one repository.
ProtectCallsFor(cs, repoName, branchName) ==
    {i \in 1..Len(cs) :
        /\ cs[i].op = "ProtectBranch"
        /\ cs[i].arg[1] = repoName
        /\ cs[i].arg[2] = branchName}

\* C6: in apply mode, for a manifest branch whose protection lookup returned
\* not-found, createProtectedBranch issues one ProtectBranch call, the only one of
\* the run for that branch; its request carries a review requirement exactly when
\* require-PR is set and a status-check requirement exactly when checks-must-pass
\* is set, listing the manifest's required checks in order.
C6_ProtectionCreation ==
    [][(pc = "createProtectedBranch" /\ ~dry) =>
          LET p == PBranch.protection
              n == Len(calls')
              req == calls'[n].arg[3]
          IN /\ n = Len(calls) + 2
             /\ calls'[n].op = "ProtectBranch"
             /\ ProtectCallsFor(calls', Repo.name, PBranch.name) = {n}
             /\ req.requiredPullRequestReviews <=> IsSet(p.requirePr)
             /\ IsSet(req.requiredStatusChecks) <=> IsSet(p.checksMustPass)
             /\ IsSet(req.requiredStatusChecks) =>
                    Val(req.requiredStatusChecks) = p.requiredChecks]_vars
    /\ [](\A r \in RepoNames, b \in BranchNames :
            Cardinality(ProtectCallsFor(calls, r, b)) <= 1)

\* require-PR = true and no checks-must-pass on a branch that was unprotected: the
\* call just issued carries a review requirement and no status-check requirement.
C6_Witness ==
    /\ pc = "ensureSignedCommits"
    /\ ~dry
    /\ run = 1
    /\ start.repos[Repo.name] # <<>>
    /\ start.repos[Repo.name][1].protection[PBranch.name] = <<>>
    /\ PBranch.protection.requirePr = Some(TRUE)
    /\ PBranch.protection.checksMustPass = Unset
    /\ calls[Len(calls)].op = "ProtectBranch"
    /\ calls[Len(calls)].arg[3] = ProtectionRequest(TRUE, Unset)

\* The membership diff, stated on lower-cased logins.
LoginsLower(ms) == {LowerStr(ms[i]) : i \in 1..Len(ms)}
UsernamesLower(ps) == {LowerStr(ps[i].username) : i \in 1..Len(ps)}
UnmanagedLogins ==
    LET unmanaged(l) == LowerStr(l) \notin UsernamesLower(org.people)
    IN SelectSeq(remote.members, unmanaged)
MissingPeople ==
    LET missing(m) == LowerStr(m.username) \notin LoginsLower(remote.members)
    IN SelectSeq(org.people, missing)
WarnedLogins ==
    LET warn(l) == l.cat = "warn" /\ l.what = "exists in github but not in manifest"
        ws == SelectSeq(reports, warn)
    IN [i \in 1..Len(ws) |-> ws[i].arg]
PlannedInvites ==
    LET plan(l) == l.cat = "add" /\ l.tense = "plan" /\ l.what = "invite"
        ls == SelectSeq(reports, plan)
    IN [i \in 1..Len(ls) |-> ls[i].arg]
MembersDone ==
    \/ cmd = "apply" /\ pc \in {"teamsRun", "reposRun"}
    \/ cmd = "checkMembers" /\ pc = "done" /\ outcome = "ok"

\* C7: once membersRun has listed the members, the remote members reported as
\* unmanaged are exactly those whose login matches no manifest username, compared
\* case-insensitively; an apply run has queued one invitation per manifest member
\* whose username matches no remote login, in manifest order, and a check run has
\* planned the same invitations and queued none; the remote member list is never
\* changed.
C7_MembershipDiff ==
    /\ remote.members = start.members
    /\ MembersDone =>
        /\ WarnedLogins = UnmanagedLogins
        /\ PlannedInvites = [i \in 1..Len(MissingPeople) |-> InviteKey(MissingPeople[i])]
        /\ cmd = "apply" =>
              queue = [i \in 1..Len(MissingPeople) |->
                          Intent(org.name, InviteKey(MissingPeople[i]))]
        /\ cmd = "checkMembers" => queue = <<>>

\* Manifest members a and b, remote members b and d: d is reported as unmanaged,
\* one invitation is queued for the member whose username is a, nothing for b.
C7_Witness ==
    /\ cmd = "apply"
    /\ pc = "reposRun"
    /\ org.people = <<People(<<88>>, <<97>>), People(<<98>>, <<98>>)>>
    /\ remote.members = <<<<98>>, <<100>>>>
    /\ WarnedLogins = <<<<100>>>>
    /\ Len(queue) = 1
    /\ queue[1] = Intent(org.name, InviteKey(org.people[1]))

\* The list calls of a call log, in order.
ListCalls(cs) ==
    LET list(c) == c.op \in {"Repositories.ListByOrg", "Repositories.List"}
    IN SelectSeq(cs, list)

\* The number of pages of PerPage a listing of n repositories spans.
PagesOf(n) == (n + PerPage - 1) \div PerPage

\* The repositories 1..n of an account that are not archived, in provider order.
LiveRepos(acct) ==
    LET live(i) == ~(acct.archMod > 0 /\ i % acct.archMod = 0)
    IN SelectSeq([i \in 1..acct.count |-> i], live)

\* C8: a GetRepos that returns without error on an account of n > 0 repositories
\* has issued exactly ceil(n / 100) list calls, the first for page 0 and each
\* further one for the NextPage of the response before it, no page twice, and
\* returns the non-archived repositories of the account in provider order; at no
\* point does the result hold an archived repository.
C8_Pagination ==
    /\ \A i \in 1..Len(repos) : ~IsArchived(account, repos[i])
    /\ (cmd = "listRepos" /\ pc = "done" /\ outcome = "ok") =>
        LET ls == ListCalls(calls)
        IN /\ account.count > 0
           /\ Len(ls) = PagesOf(account.count)
           /\ ls[1].arg = 0
           /\ \A i \in 2..Len(ls) : ls[i].arg = i
           /\ \A i \in 2..Len(ls) : ls[i].arg = ProviderPage(account, ls[i - 1].arg).next
           /\ \A i, j \in 1..Len(ls) : i # j => ls[i].arg # ls[j].arg
           /\ repos = LiveRepos(account)

\* An account of more than two full pages with every third repository archived:
\* three list calls, and the result is shorter than the account.
C8_Witness ==
    /\ cmd = "listRepos"
    /\ pc = "done"
    /\ outcome = "ok"
    /\ account.count > 2 * PerPage
    /\ account.archMod = 3
    /\ Len(ListCalls(calls)) = 3
    /\ Len(repos) = account.count - (account.count \div 3)

\* C9: every remote call in the call log of a run has a limiter acquisition
\* immediately before it.
C9_LimiterBeforeEveryCall ==
    \A i \in 1..Len(calls) :
        calls[i] # Wait => (i > 1 /\ calls[i - 1] = Wait)

\* C10: once a remote call has been answered with the provider's rate-limit
\* error, the run has ended with a rate-limit error and that call is the last
\* entry of the call log.
C10_RateLimitFatal ==
    (fault # <<>> /\ fault[1].answer.err = "ratelimit") =>
        /\ pc = "done"
        /\ outcome = "error"
        /\ IsRateLimitErr(err)
        /\ Len(calls) = fault[1].at

\* C11: the manifest held in memory is, in every state of every run and in either
\* mode, the manifest as it was read from the file, label order included.
C11_ManifestUnchanged == org = file

\* C12: for every manifest branch that was protected when the run started, a
\* review requirement the manifest leaves unset and a status-check requirement
\* the manifest leaves unset are, in every state of the run, what they were at
\* the start.
C12_UnsetProtectionKept ==
    \A r \in 1..Len(file.repositories) :
        \A b \in 1..Len(file.repositories[r].protectedBranches) :
            LET n == file.repositories[r].name
                br == file.repositories[r].protectedBranches[b]
                old == start.repos[n][1].protection[br.name]
                new == remote.repos[n][1].protection[br.name]
            IN (start.repos[n] # <<>> /\ old # <<>>) =>
                /\ new # <<>>
                /\ ~IsSet(br.protection.requirePr) => new[1].pr = old[1].pr
                /\ ~IsSet(br.protection.checksMustPass) => new[1].checks = old[1].checks

ReadOps == {"Repositories.Get", "Repositories.GetBranchProtection", "Organizations.Get",
            "Users.Get", "Organizations.ListMembers", "Repositories.ListByOrg",
            "Repositories.List"}
NotFoundErrs == {ErrRepoNotFound, ErrBranchProtectionNotFound, ErrOrgNotFound,
                 ErrUserNotFound}

\* C13: once a read has been answered with a provider error other than not-found,
\* the run has ended with an error and no runtime fault; the error is a rate-limit
\* error when the provider signalled a rate limit, and otherwise is neither a
\* rate-limit error, a not-found error nor the no-repositories signal.
C13_ReadClassified ==
    (fault # <<>> /\ calls[fault[1].at].op \in ReadOps) =>
        /\ pc = "done"
        /\ outcome = "error"
        /\ IF fault[1].answer.err = "ratelimit"
           THEN IsRateLimitErr(err)
           ELSE /\ ~IsRateLimitErr(err)
                /\ err \notin NotFoundErrs
                /\ err # ErrNoReposFound

\* The indexes of the CreateRepo calls of a call log.
CreateCallsAt(cs) == {i \in 1..Len(cs) : cs[i].op = "CreateRepo"}

\* C14: in an apply run, every create call carries the name and the manifest-set
\* fields of a manifest repository that was absent, there is one per repository,
\* and after it the run issues no update-repo call with a non-empty patch and no
\* set-topics call for that repository and does not end in a runtime fault.
C14_CreateThenNothingToChange ==
    (cmd = "apply" /\ CreateCallsAt(calls) # {}) =>
        /\ outcome # "panic"
        /\ \A i \in CreateCallsAt(calls) :
            LET state == calls[i].arg
            IN /\ start.repos[state.name] = <<>>
               /\ \E r \in 1..Len(file.repositories) :
                    /\ file.repositories[r].name = state.name
                    /\ state.description = file.repositories[r].description
                    /\ state.archived = file.repositories[r].archived
                    /\ state.private = file.repositories[r].private
                    /\ state.defaultBranch = file.repositories[r].defaultBranch
                    /\ state.topics = file.repositories[r].labels
               /\ \A j \in CreateCallsAt(calls) : calls[j].arg.name = state.name => j = i
               /\ \A j \in (i + 1)..Len(calls) :
                    /\ (calls[j].op = "UpdateRepo" /\ calls[j].arg[1] = state.name)
                          => calls[j].arg[2] = NoEdits
                    /\ calls[j].op = "SetRepoTopics" => calls[j].arg[1] # state.name

\* The repository a call is about ("" for a call about no repository).
CallRepo(c) ==
    CASE c.op = "Repositories.Get" -> c.arg
      [] c.op = "CreateRepo" -> c.arg.name
      [] c.op \in {"UpdateRepo", "SetRepoTopics", "ProtectBranch", "RequireSignedCommits",
                   "Repositories.GetBranchProtection"} -> c.arg[1]
      [] OTHER -> ""

\* The provider's state after a write call that succeeded.
EffectOf(rem, c) ==
    CASE c.op = "CreateRepo" -> [rem EXCEPT !.repos[c.arg.name] = <<CreatedRepo(c.arg)>>]
      [] c.op = "UpdateRepo" ->
            [rem EXCEPT !.repos[c.arg[1]] = <<PatchedRepo(@[1], c.arg[2])>>]
      [] c.op = "SetRepoTopics" -> [rem EXCEPT !.repos[c.arg[1]][1].topics = c.arg[2]]
      [] c.op = "ProtectBranch" -> Protected(rem, c.arg[1], c.arg[2], c.arg[3])
      [] c.op = "RequireSignedCommits" ->
            [rem EXCEPT !.repos[c.arg[1]][1].protection[c.arg[2]] = <<SignedAs(@[1])>>]
      [] c.op = "CreateOrgInvitation" -> [rem EXCEPT !.invited = Append(@, c.arg[2])]
      [] OTHER -> rem

\* The provider's state after the calls i.. of a call log, the call at `failed`
\* (0 for none) having been refused.
RECURSIVE ReplayFrom(_, _, _, _)
ReplayFrom(rem, cs, i, failed) ==
    IF i > Len(cs) THEN rem
    ELSE ReplayFrom(IF i = failed THEN rem ELSE EffectOf(rem, cs[i]), cs, i + 1, failed)

ReposFailed == cmd \in {"apply", "checkRepos"} /\ outcome = "error" /\ ri >= 1

\* C15: when the reconciliation of the repository at position ri of the manifest
\* has failed with an error, the run is over, no call of the run is about a later
\* repository, and the remote is the starting remote with every write the run
\* issued before the failing call applied; the only step from there is a new run.
C15_NoTransaction ==
    /\ [](ReposFailed =>
            /\ pc = "done"
            /\ \A i \in 1..Len(calls) : \A r \in (ri + 1)..Len(file.repositories) :
                    CallRepo(calls[i]) # file.repositories[r].name
            /\ remote = ReplayFrom(start, calls, 1,
                                   IF fault # <<>> THEN fault[1].at ELSE 0))
    /\ [][ReposFailed => run' = run + 1]_vars

\* The second of two repositories has failed after the first was patched: the
\* first repository's change is still on the remote.
C15_Witness ==
    /\ cmd = "apply"
    /\ pc = "done"
    /\ outcome = "error"
    /\ Len(file.repositories) = 2
    /\ ri = 2
    /\ remote.repos["r1"] # start.repos["r1"]
    /\ \E i \in 1..Len(calls) :
          calls[i].op = "UpdateRepo" /\ calls[i].arg[2] # NoEdits

\* C16: in apply mode, for a manifest branch whose protection lookup succeeded,
\* UpdateBranchProtection issues one ProtectBranch call whatever the remote
\* protection is, the only one of the run for that branch; its request carries a
\* review requirement exactly when require-PR is set and the manifest's required
\* checks exactly when checks-must-pass is set; a completed apply run has issued
\* exactly one such call for every manifest branch that was protected at its start.
C16_AlwaysUpdates ==
    /\ [][(pc = "UpdateBranchProtection" /\ ~dry) =>
            LET p == PBranch.protection
                n == Len(calls')
            IN /\ n = Len(calls) + 2
               /\ calls'[n - 1] = Wait
               /\ calls'[n] = Call("ProtectBranch",
                    <<Repo.name, PBranch.name,
                      [requiredPullRequestReviews |-> p.requirePr # Unset,
                       requiredStatusChecks |->
                          IF p.checksMustPass # Unset THEN <<p.requiredChecks>>
                          ELSE <<>>]>>)
               /\ ProtectCallsFor(calls', Repo.name, PBranch.name) = {n}]_vars
    /\ []((cmd = "apply" /\ pc = "done" /\ outcome = "ok") =>
            \A r \in 1..Len(file.repositories) :
                \A b \in 1..Len(file.repositories[r].protectedBranches) :
                    LET n == file.repositories[r].name
                        bn == file.repositories[r].protectedBranches[b].name
                    IN (start.repos[n] # <<>> /\ start.repos[n][1].protection[bn] # <<>>)
                        => Cardinality(ProtectCallsFor(calls, n, bn)) = 1)

\* The remote protection already has exactly the requirements the manifest asks
\* for, and the update call has been issued all the same.
C16_Witness ==
    /\ pc = "ensureSignedCommits"
    /\ ~dry
    /\ PBranch.protection.requirePr = Some(TRUE)
    /\ PBranch.protection.checksMustPass = Unset
    /\ start.repos[Repo.name] # <<>>
    /\ start.repos[Repo.name][1].protection[PBranch.name]
          = <<RemoteProtection(TRUE, <<>>, FALSE)>>
    /\ remote = start
    /\ calls[Len(calls)].op = "ProtectBranch"
    /\ calls[Len(calls)].arg[3] = ProtectionRequest(TRUE, Unset)

\* C17: ensureSignedCommits issues no call and changes nothing when the
\* manifest's signed-commits flag is unset. When the flag is set it first fetches
\* the branch protection; it issues RequireSignedCommits only in apply mode and
\* only when the fetched enforcement differs from the flag, does so whenever the
\* step ends without error on such a difference, and when they are equal issues
\* no write and prints the flag's value as an informational line.
C17_PatchOnlyOnMismatch ==
    [][pc = "ensureSignedCommits" =>
        LET flag == PBranch.protection.signedCommits
            n == Len(calls)
            get == <<Wait, Call("Repositories.GetBranchProtection",
                                <<Repo.name, PBranch.name>>)>>
            put == <<Wait, Call("RequireSignedCommits", <<Repo.name, PBranch.name>>)>>
            enabled == remote.repos[Repo.name][1].protection[PBranch.name][1].signed
            wrote == \E i \in (n + 1)..Len(calls') : calls'[i].op = "RequireSignedCommits"
            okStep == outcome' \notin {"error", "panic"}
        IN IF flag = Unset
           THEN calls' = calls /\ remote' = remote /\ reports' = reports
           ELSE /\ wrote => /\ ~dry
                            /\ RemoteProtected(Repo.name, PBranch.name)
                            /\ enabled # Val(flag)
                            /\ calls' = calls \o get \o put
                /\ ~wrote => calls' = calls \o get /\ remote' = remote
                /\ (okStep /\ ~dry /\ enabled # Val(flag)) => wrote
                /\ (okStep /\ enabled = Val(flag)) =>
                      reports' = Append(reports,
                          Line("info", "none", "require signed commits is", Val(flag)))]_vars

\* The flag is true and the remote did not enforce signed commits: the write has
\* been issued after the fetch and reported.
C17_Witness ==
    /\ cmd = "apply"
    /\ outcome # "error"
    /\ Len(calls) >= 4
    /\ calls[Len(calls)].op = "RequireSignedCommits"
    /\ calls[Len(calls) - 2].op = "Repositories.GetBranchProtection"
    /\ Len(reports) >= 1
    /\ reports[Len(reports)] = Line("add", "done", "update require signed commits", TRUE)

\* C18: after an apply-mode ensureSignedCommits that ends without error for a
\* branch whose manifest signed-commits flag is set, the remote's signed-commit
\* enforcement of that branch equals the flag.
C18_SignedCommitsConverge ==
    [][(/\ pc = "ensureSignedCommits"
        /\ ~dry
        /\ PBranch.protection.signedCommits # Unset
        /\ outcome' \notin {"error", "panic"}) =>
            remote'.repos[Repo.name][1].protection[PBranch.name][1].signed
                = Val(PBranch.protection.signedCommits)]_vars

\* The SetRepoTopics calls of a call log for one repository.
TopicCallsFor(cs, repoName) ==
    {i \in 1..Len(cs) : cs[i].op = "SetRepoTopics" /\ cs[i].arg[1] = repoName}

\* C19: in apply mode ensureTopics does nothing at all when the manifest label
\* list is empty, whatever the remote topics are. When the labels are not empty
\* and are not a reordering of the remote topics, it issues one SetRepoTopics
\* call, the only one of the run for that repository, carrying every manifest
\* label and nothing else, and when the call succeeds the remote topic set is the
\* manifest label set.
C19_TopicReplace ==
    [][(pc = "ensureTopics" /\ ~dry) =>
        LET labels == Repo.labels
            n == Len(calls')
        IN IF labels = <<>>
           THEN calls' = calls /\ remote' = remote /\ reports' = reports
           ELSE (/\ RemoteHas(Repo.name)
                 /\ ~IsPermutation(remote.repos[Repo.name][1].topics, labels)) =>
                    /\ n = Len(calls) + 2
                    /\ calls'[n - 1] = Wait
                    /\ calls'[n].op = "SetRepoTopics"
                    /\ calls'[n].arg[1] = Repo.name
                    /\ IsPermutation(calls'[n].arg[2], labels)
                    /\ TopicCallsFor(calls', Repo.name) = {n}
                    /\ outcome' # "error" =>
                          Range(remote'.repos[Repo.name][1].topics) = Range(labels)]_vars

\* Remote topics that were not the manifest's labels have been replaced by them
\* in one call.
C19_Witness ==
    /\ cmd = "apply"
    /\ run = 1
    /\ outcome # "error"
    /\ Len(file.repositories) = 1
    /\ Len(file.repositories[1].labels) = 2
    /\ start.repos["r1"] # <<>>
    /\ Len(start.repos["r1"][1].topics) = 2
    /\ Range(start.repos["r1"][1].topics) # Range(file.repositories[1].labels)
    /\ Len(calls) >= 1
    /\ calls[Len(calls)].op = "SetRepoTopics"
    /\ Range(remote.repos["r1"][1].topics) = Range(file.repositories[1].labels)

\* The provider calls of a call log, limiter acquisitions left out.
ProviderCalls(cs) ==
    LET remoteCall(c) == c # Wait
    IN SelectSeq(cs, remoteCall)

\* The first provider call was answered, and not with a fault.
OrgProbeAnswered ==
    Len(ProviderCalls(calls)) >= 1 /\ (fault = <<>> \/ fault[1].at > 2)

\* C20: GetRepos first gets the account as an organization. It gets the account
\* as a user exactly when that lookup was answered not-found, as its next call,
\* and then lists with the user listing only; otherwise it lists with the
\* organization listing only. When the account found has no repositories it
\* ends with the no-repositories error and no list call; when it has
\* repositories and all are archived it ends without error and an empty result.
C20_ListingProbe ==
    cmd = "listRepos" =>
        LET pcs == ProviderCalls(calls)
            userAt == {i \in 1..Len(pcs) : pcs[i].op = "Users.Get"}
        IN /\ Len(pcs) >= 1 => pcs[1].op = "Organizations.Get"
           /\ \A i \in 2..Len(pcs) : pcs[i].op # "Organizations.Get"
           /\ userAt \subseteq {2}
           /\ userAt # {} => (OrgProbeAnswered /\ account.kind # "org")
           /\ (OrgProbeAnswered /\ account.kind # "org") =>
                 (userAt # {} \/ (pc = "GetRepos_User" /\ Len(pcs) = 1))
           /\ \A i \in 1..Len(pcs) :
                 /\ pcs[i].op = "Repositories.List" => userAt # {}
                 /\ pcs[i].op = "Repositories.ListByOrg" => userAt = {}
           /\ (pc = "done" /\ fault = <<>> /\ account.kind # "none" /\ account.count = 0) =>
                 /\ outcome = "error"
                 /\ err = ErrNoReposFound
                 /\ ListCalls(calls) = <<>>
           /\ (pc = "done" /\ fault = <<>> /\ account.count > 0 /\ account.archMod = 1) =>
                 /\ outcome = "ok"
                 /\ repos = <<>>
                 /\ ListCalls(calls) # <<>>

\* A user account whose repositories are all archived: the organization probe,
\* the user probe, the user listing, and an empty result without error.
C20_Witness ==
    /\ cmd = "listRepos"
    /\ pc = "done"
    /\ outcome = "ok"
    /\ account.kind = "user"
    /\ account.count > 0
    /\ account.archMod = 1
    /\ Len(ProviderCalls(calls)) >= 3
    /\ ProviderCalls(calls)[1].op = "Organizations.Get"
    /\ ProviderCalls(calls)[2].op = "Users.Get"
    /\ ProviderCalls(calls)[3].op = "Repositories.List"
    /\ repos = <<>>

InviteOps == {"Users.Get", "CreateOrgInvitation"}

\* The calls a step adds to the call log.
NewCalls == SubSeq(calls', Len(calls) + 1, Len(calls'))

\* C21: membersRun issues no get-user and no create-invitation call; in a dry run
\* it leaves the work list empty, and in apply mode, when it ends without error,
\* it appends one intent per missing manifest member, in manifest order. A
\* get-user or create-invitation call of a reconciliation run is issued only by
\* the drain of a non-empty work list, for the intent at its head. The work list is empty in every state
\* of a dry run.
C21_DeferredInvitations ==
    /\ [](dry => queue = <<>>)
    /\ [][pc = "membersRun" =>
            /\ OpsOf(NewCalls) \cap InviteOps = {}
            /\ remote' = remote
            /\ dry => queue' = <<>>
            /\ (~dry /\ outcome' # "error") =>
                  queue' = queue \o [i \in 1..Len(MissingPeople) |->
                                        Intent(org.name, InviteKey(MissingPeople[i]))]]_vars
    /\ [][(cmd # "listRepos" /\ run' = run /\ OpsOf(NewCalls) \cap InviteOps # {}) =>
            /\ pc = "Run"
            /\ ~dry
            /\ queue # <<>>
            /\ \A i \in 1..Len(NewCalls) :
                  /\ NewCalls[i].op = "Users.Get" => NewCalls[i].arg = Head(queue).username
                  /\ NewCalls[i].op = "CreateOrgInvitation" =>
                        NewCalls[i].arg = <<Head(queue).org, Head(queue).username>>]_vars

\* Two manifest members were missing: both invitations were created by the
\* drain, in manifest order, after membersRun had only listed the members.
C21_Witness ==
    /\ cmd = "apply"
    /\ pc = "done"
    /\ outcome = "ok"
    /\ Len(org.people) = 2
    /\ Len(remote.invited) = 2
    /\ remote.invited = <<InviteKey(org.people[1]), InviteKey(org.people[2])>>
    /\ calls[1].op = "Organizations.ListMembers"
    /\ calls[2].op = "Users.Get"

\* ensureRepo has returned nil for the repository at position r of the manifest.
EnsureRepoDone(r) ==
    /\ cmd = "apply"
    /\ \/ r < ri
       \/ r <= ri /\ pc \in {"done", "Run"} /\ outcome \in {"ok", "running"}

\* C22: once an apply-mode ensureRepo has returned without error for a
\* repository that existed when the run started, each of description, archived,
\* private and default branch that the manifest sets equals the remote value
\* (description and default branch up to letter case), and each one the manifest
\* leaves unset has the value the remote had at the start of the run.
C22_FieldsConverge ==
    \A r \in 1..Len(file.repositories) :
        LET m == file.repositories[r]
            old == start.repos[m.name][1]
            new == remote.repos[m.name][1]
        IN (EnsureRepoDone(r) /\ start.repos[m.name] # <<>>) =>
            /\ remote.repos[m.name] # <<>>
            /\ IF IsSet(m.description)
               THEN LowerStr(new.description) = LowerStr(Val(m.description))
               ELSE new.description = old.description
            /\ IF IsSet(m.archived)
               THEN new.archived = Val(m.archived)
               ELSE new.archived = old.archived
            /\ IF IsSet(m.private)
               THEN new.private = Val(m.private)
               ELSE new.private = old.private
            /\ IF IsSet(m.defaultBranch)
               THEN LowerStr(new.defaultBranch) = LowerStr(Val(m.defaultBranch))
               ELSE new.defaultBranch = old.defaultBranch

\* Description set and equal up to case, private set and different, archived
\* unset: the run has made the repository private and left the rest as it was.
C22_Witness ==
    /\ cmd = "apply"
    /\ run = 1
    /\ pc = "done"
    /\ outcome = "ok"
    /\ Len(file.repositories) = 1
    /\ file.repositories[1].description = Some(<<65>>)
    /\ file.repositories[1].private = Some(TRUE)
    /\ file.repositories[1].archived = Unset
    /\ start.repos["r1"] = <<RemoteR1>>
    /\ remote.repos["r1"][1].private = TRUE
    /\ remote.repos["r1"][1].description = <<97>>
    /\ remote.repos["r1"][1].archived = FALSE

\* C23: once membersRun has listed the members, the invitations it reported are
\* addressed to the usernames of the missing manifest members, in manifest order,
\* and in apply mode so are the intents it queued.
C23_InviteByUsername ==
    MembersDone =>
        /\ PlannedInvites = [i \in 1..Len(MissingPeople) |-> MissingPeople[i].username]
        /\ cmd = "apply" =>
              queue = [i \in 1..Len(MissingPeople) |->
                          Intent(org.name, MissingPeople[i].username)]

====
